---- MODULE Spec2Model ----
(***************************************************************************)
(* Model of the numpy metric layer of csrank (src/csrank/metrics_np.py)    *)
(* and of the FETAObjectRanker adapter                                     *)
(* (src/csrank/objectranking/feta_object_ranker.py).                       *)
(*                                                                         *)
(* The metrics are pure functions.  A state is one call: the function      *)
(* called (fn), its arguments (y_true, pred, opt), the position of the     *)
(* call (pc) and the value it returned (result).  Init draws the call from *)
(* bounded sets of inputs, one action per function applies it.             *)
(*                                                                         *)
(* Matrices are sequences of rows, rows are sequences; the source's        *)
(* 0-based index j is index j+1 here.  Floating point values are modelled  *)
(* as exact rationals <<num, den>> in lowest terms with den >= 0; den = 0  *)
(* holds the IEEE special values: <<0,0>> is NaN, <<1,0>> and <<-1,0>>     *)
(* are +inf and -inf.                                                      *)
(***************************************************************************)
EXTENDS Integers, Sequences, FiniteSets, TLC

VARIABLES fn, y_true, pred, opt, pc, result

vars == <<fn, y_true, pred, opt, pc, result>>

(***************************************************************************)
(* Bounds of the model.                                                    *)
(***************************************************************************)
MaxInstances == 2

MaxObjects == 3

MaxCells == 6

MaxNdcgCells == 4

(***************************************************************************)
(* Exact arithmetic with IEEE special values.                              *)
(***************************************************************************)
Abs(x) == IF x < 0 THEN -x ELSE x

Sign(x) == IF x < 0 THEN -1 ELSE IF x > 0 THEN 1 ELSE 0

RECURSIVE GCD(_, _)
GCD(a, b) == IF b = 0 THEN a ELSE GCD(b, a % b)

RNorm(n, d) ==
    IF d = 0 THEN <<Sign(n), 0>>
    ELSE LET g == GCD(Abs(n), Abs(d))
         IN  <<(Sign(d) * n) \div g, Abs(d) \div g>>

NaN == <<0, 0>>

R(x) == <<x, 1>>

\* Python's None (no input is an empty array, so <<>> is free to stand for it).
None == <<>>

IsNaN(a) == a = NaN

RAdd(a, b) ==
    IF a[2] = 0 /\ b[2] = 0
    THEN (IF a = b THEN a ELSE NaN)
    ELSE RNorm(a[1] * b[2] + b[1] * a[2], a[2] * b[2])

RNeg(a) == <<-a[1], a[2]>>

RSub(a, b) == RAdd(a, RNeg(b))

RMul(a, b) == RNorm(a[1] * b[1], a[2] * b[2])

RDiv(a, b) == RNorm(a[1] * b[2], a[2] * b[1])

RLess(a, b) == a[1] * b[2] < b[1] * a[2]

\* Sum of the rationals f[1] .. f[n].
RECURSIVE RSum(_, _)
RSum(f, n) == IF n = 0 THEN R(0) ELSE RAdd(RSum(f, n - 1), f[n])

\* Sum of the integers f[1] .. f[n].
RECURSIVE ISum(_, _)
ISum(f, n) == IF n = 0 THEN 0 ELSE ISum(f, n - 1) + f[n]

\* np.mean over a vector of floats.
np_mean(v) == RDiv(RSum(v, Len(v)), R(Len(v)))

\* np.nanmean: the mean of the entries that are not NaN, NaN if there is none.
np_nanmean(v) ==
    LET keep == SelectSeq(v, LAMBDA x : ~IsNaN(x))
    IN  RDiv(RSum(keep, Len(keep)), R(Len(keep)))

(***************************************************************************)
(* Inputs.                                                                 *)
(***************************************************************************)
Shapes ==
    {s \in (1..MaxInstances) \X (1..MaxObjects) : s[1] * s[2] <= MaxCells}

\* Rows of length m over the values V.
Rows(m, V) == [1..m -> V]

\* n x m matrices whose rows are taken from RowSet.
Matrices(n, RowSet) == [1..n -> RowSet]

IsTieFree(row) == \A j, k \in DOMAIN row : j # k => row[j] # row[k]

\* Tie-free rank rows: permutations of base .. base+m-1 (lower = better).
RankRows(m, base) == {r \in Rows(m, base..(base + m - 1)) : IsTieFree(r)}

\* Score rows (higher = better), ties allowed.
ScoreRows(m) == Rows(m, 1..m)

n_objects(y) == Len(y[1])

(***************************************************************************)
(* zero_one_rank_loss_for_scores_ties_np and the functions built on it.    *)
(***************************************************************************)
\* np.greater(a[:, None] - a[:, :, None], 0)[i, j, k] for one row: a[k] - a[j] > 0.
greater_mask(row) ==
    [j \in DOMAIN row |-> [k \in DOMAIN row |-> IF row[k] - row[j] > 0 THEN 1 ELSE 0]]

\* np.equal(a[:, None] - a[:, :, None], 0)[i, j, k] for one row.
equal_mask(row) ==
    [j \in DOMAIN row |-> [k \in DOMAIN row |-> IF row[k] - row[j] = 0 THEN 1 ELSE 0]]

\* np.sum(t, axis=(1, 2)) for one instance.
sum_axes_1_2(t) ==
    LET m == Len(t) IN ISum([j \in 1..m |-> ISum(t[j], m)], m)

\* The same as tie_correction with the division by 2 in the place of 4.
tie_correction_half(yt, sp) ==
    LET m  == n_objects(yt)
    IN  [i \in 1..Len(yt) |-> RDiv(R(sum_axes_1_2(equal_mask(sp[i])) - m), R(2))]

\* x = (np.sum(mask3, axis=(1, 2)) - n_objects) / 4.0
tie_correction(yt, sp) ==
    LET m  == n_objects(yt)
    IN  [i \in 1..Len(yt) |-> RDiv(R(sum_axes_1_2(equal_mask(sp[i])) - m), R(4))]

\* The same as pair_denominator without the - 1.0.
pair_denominator_square(m) == RDiv(R(m * m), R(2))

\* n_objects * (n_objects - 1.0) / 2.0
pair_denominator(m) == RDiv(R(m * (m - 1)), R(2))

zero_one_rank_loss_for_scores_ties_np(yt, sp) ==
    LET m     == n_objects(yt)
        n     == Len(yt)
        mask  == [i \in 1..n |-> greater_mask(yt[i])]
        mask2 == [i \in 1..n |-> greater_mask(sp[i])]
        both  == [i \in 1..n |-> [j \in 1..m |-> [k \in 1..m |->
                     IF mask[i][j][k] = 1 /\ mask2[i][j][k] = 1 THEN 1 ELSE 0]]]
        x     == tie_correction(yt, sp)
        transpositions ==
            [i \in 1..n |-> RAdd(R(sum_axes_1_2(both[i])), x[i])]
        denominator == pair_denominator(m)
        res   == [i \in 1..n |-> RDiv(transpositions[i], denominator)]
    IN  np_mean(res)

zero_one_rank_loss_for_scores_np(yt, sp) ==
    zero_one_rank_loss_for_scores_ties_np(yt, sp)

kendalls_tau_for_scores_np(yt, sp) ==
    RSub(R(1), RMul(R(2), zero_one_rank_loss_for_scores_ties_np(yt, sp)))

(***************************************************************************)
(* The calls of the pairwise rank loss family.                             *)
(***************************************************************************)
RankLossFns ==
    {"zero_one_rank_loss_for_scores_ties_np",
     "zero_one_rank_loss_for_scores_np",
     "kendalls_tau_for_scores_np"}

InitRankLoss ==
    /\ fn \in RankLossFns
    /\ \E s \in Shapes :
          /\ y_true \in Matrices(s[1], RankRows(s[2], 0))
          /\ pred \in Matrices(s[1], ScoreRows(s[2]))
    /\ opt = None
    /\ pc = "call"
    /\ result = None

Return(v) ==
    /\ result' = v
    /\ pc' = "done"
    /\ UNCHANGED <<fn, y_true, pred, opt>>

Call_zero_one_rank_loss_for_scores_ties_np ==
    /\ pc = "call"
    /\ fn = "zero_one_rank_loss_for_scores_ties_np"
    /\ Return(zero_one_rank_loss_for_scores_ties_np(y_true, pred))

Call_zero_one_rank_loss_for_scores_np ==
    /\ pc = "call"
    /\ fn = "zero_one_rank_loss_for_scores_np"
    /\ Return(zero_one_rank_loss_for_scores_np(y_true, pred))

Call_kendalls_tau_for_scores_np ==
    /\ pc = "call"
    /\ fn = "kendalls_tau_for_scores_np"
    /\ Return(kendalls_tau_for_scores_np(y_true, pred))

NextRankLoss ==
    \/ Call_zero_one_rank_loss_for_scores_ties_np
    \/ Call_zero_one_rank_loss_for_scores_np
    \/ Call_kendalls_tau_for_scores_np

SpecRankLoss == InitRankLoss /\ [][NextRankLoss]_vars

Returned(f) == pc = "done" /\ fn = f

\* Unordered pairs of objects.
Pairs(m) == {p \in (1..m) \X (1..m) : p[1] < p[2]}

\* D_i: pairs strictly ordered by the scores opposite to the ground truth
\* (a lower rank is better, a higher score is better).
Discordant(yrow, srow) ==
    Cardinality({p \in Pairs(Len(yrow)) :
        \/ yrow[p[1]] < yrow[p[2]] /\ srow[p[1]] < srow[p[2]]
        \/ yrow[p[1]] > yrow[p[2]] /\ srow[p[1]] > srow[p[2]]})

\* T_i: pairs with equal scores.
TiedPairs(srow) ==
    Cardinality({p \in Pairs(Len(srow)) : srow[p[1]] = srow[p[2]]})

ExpectedRankLoss(yt, sp) ==
    LET m == n_objects(yt)
        n == Len(yt)
    IN  RDiv(RSum([i \in 1..n |->
                     RDiv(R(2 * Discordant(yt[i], sp[i]) + TiedPairs(sp[i])),
                          R(m * (m - 1)))], n),
             R(n))

\* C1: with m >= 2 objects, zero_one_rank_loss_for_scores_ties_np returns the
\* mean over instances of (D_i + T_i/2) / (m(m-1)/2); y_true = [[0,1,2]],
\* s_pred = [[3,1,2]] gives exactly 1/3.
C1_RankLossFormula ==
    (Returned("zero_one_rank_loss_for_scores_ties_np") /\ n_objects(y_true) >= 2)
        => /\ result = ExpectedRankLoss(y_true, pred)
           /\ (y_true = <<<<0, 1, 2>>>> /\ pred = <<<<3, 1, 2>>>>) => result = <<1, 3>>

C1_Witness ==
    /\ Returned("zero_one_rank_loss_for_scores_ties_np")
    /\ Len(y_true) = 2
    /\ n_objects(y_true) = 3
    /\ TiedPairs(pred[1]) = 1
    /\ Discordant(y_true[1], pred[1]) = 1
    /\ Discordant(y_true[2], pred[2]) = 2
    /\ result = <<7, 12>>

IsReverse(yrow, srow) ==
    /\ IsTieFree(srow)
    /\ \A j, k \in DOMAIN yrow : yrow[j] < yrow[k] => srow[j] < srow[k]

\* C2: when every row of s_pred is tie-free and orders the objects in the
\* reverse of the ground truth (m >= 2), the rank loss and its alias return 1.0.
C2_ReverseIsOne ==
    (/\ pc = "done"
     /\ fn \in {"zero_one_rank_loss_for_scores_ties_np",
                "zero_one_rank_loss_for_scores_np"}
     /\ n_objects(y_true) >= 2
     /\ \A i \in 1..Len(y_true) : IsReverse(y_true[i], pred[i]))
        => result = R(1)

C2_Witness ==
    /\ Returned("zero_one_rank_loss_for_scores_np")
    /\ Len(y_true) = 2
    /\ n_objects(y_true) = 3
    /\ y_true[1] # y_true[2]
    /\ \A i \in 1..Len(y_true) : IsReverse(y_true[i], pred[i])
    /\ result = R(1)

(***************************************************************************)
(* The score-to-ranking transform (csrank.numpy_util.scores_to_rankings).  *)
(* R[i,j] is the 0-based position of object j when the objects are sorted  *)
(* by descending score.  On tied scores the transform either breaks the    *)
(* tie by object index (a permutation comes out) or lets the tied objects  *)
(* share the position (repeated values come out); opt chooses.             *)
(***************************************************************************)
TiePolicies == {"break", "share"}

scores_to_rankings(sp, policy) ==
    [i \in 1..Len(sp) |->
        [j \in 1..Len(sp[i]) |->
            Cardinality({k \in 1..Len(sp[i]) : sp[i][k] > sp[i][j]})
            + (IF policy = "break"
               THEN Cardinality({k \in 1..(j - 1) : sp[i][k] = sp[i][j]})
               ELSE 0)]]

\* Ranking rows as a caller may pass them: values 0 .. m-1, ties allowed.
RankingRows(m) == Rows(m, 0..(m - 1))

(***************************************************************************)
(* spearman_correlation_for_scores_np                                      *)
(***************************************************************************)
\* len(np.unique(r2))
unique_len(row) == Cardinality({row[j] : j \in DOMAIN row})

\* np.sum((r1 - r2) ** 2)
sum_sq_diff(r1, r2) == ISum([j \in 1..Len(r1) |-> (r1[j] - r2[j]) * (r1[j] - r2[j])], Len(r1))

\* The same as rho_reduce with np.mean in the place of np.nanmean.
rho_reduce_mean(rho) == np_mean(rho)

\* np.nanmean(np.array(rho))
rho_reduce(rho) == np_nanmean(rho)

spearman_correlation_for_scores_np(yt, sp, policy) ==
    LET y_pred      == scores_to_rankings(sp, policy)
        m           == n_objects(yt)
        denominator == m * (m * m - 1)
        rho == [i \in 1..Len(yt) |->
                   IF unique_len(y_pred[i]) = Len(y_pred[i])
                   THEN RSub(R(1), RDiv(R(6 * sum_sq_diff(yt[i], y_pred[i])),
                                        R(denominator)))
                   ELSE NaN]
    IN  rho_reduce(rho)

(***************************************************************************)
(* zero_one_accuracy_for_scores_np, zero_one_accuracy_np                   *)
(***************************************************************************)
\* np.all(np.equal(y_true, y_pred), axis=1), as 0/1 per row.
all_equal_rows(yt, yp) ==
    [i \in 1..Len(yp) |->
        IF \A j \in 1..Len(yt[i]) : yt[i][j] = yp[i][j] THEN 1 ELSE 0]

zero_one_accuracy_for_scores_np(yt, sp, policy) ==
    LET y_pred == scores_to_rankings(sp, policy)
    IN  RDiv(R(ISum(all_equal_rows(yt, y_pred), Len(y_pred))), R(Len(y_pred)))

\* The same as zero_one_accuracy_np with the element-wise match average.
zero_one_accuracy_elementwise(yt, yp) ==
    LET m == n_objects(yt)
    IN  RDiv(R(ISum([i \in 1..Len(yp) |->
                        Cardinality({j \in 1..m : yt[i][j] = yp[i][j]})], Len(yp))),
             R(Len(yp) * m))

zero_one_accuracy_np(yt, yp) ==
    RDiv(R(ISum(all_equal_rows(yt, yp), Len(yp))), R(Len(yp)))

(***************************************************************************)
(* FETAObjectRanker.predict_for_scores                                     *)
(***************************************************************************)
\* ObjectRanker.predict_for_scores: the ranking matrix of the scores.
ObjectRanker_predict_for_scores(scores, policy) == scores_to_rankings(scores, policy)

\* The method evaluates the base class's method and has no return statement.
FETAObjectRanker_predict_for_scores(scores, policy) ==
    LET computed == ObjectRanker_predict_for_scores(scores, policy)
    IN  None

(***************************************************************************)
(* The calls of the rank-correlation and accuracy functions and of the     *)
(* ranker's predict_for_scores.                                            *)
(***************************************************************************)
InitRanking ==
    /\ pc = "call"
    /\ result = None
    /\ \E s \in Shapes :
          \/ /\ fn \in {"spearman_correlation_for_scores_np",
                        "zero_one_accuracy_for_scores_np"}
             /\ y_true \in Matrices(s[1], RankRows(s[2], 0))
             /\ pred \in Matrices(s[1], ScoreRows(s[2]))
             /\ opt \in TiePolicies
          \/ /\ fn = "zero_one_accuracy_np"
             /\ y_true \in Matrices(s[1], RankRows(s[2], 0))
             /\ pred \in Matrices(s[1], RankingRows(s[2]))
             /\ opt = None
          \/ /\ fn = "FETAObjectRanker.predict_for_scores"
             /\ y_true = None
             /\ pred \in Matrices(s[1], ScoreRows(s[2]))
             /\ opt \in TiePolicies

Call_spearman_correlation_for_scores_np ==
    /\ pc = "call"
    /\ fn = "spearman_correlation_for_scores_np"
    /\ Return(spearman_correlation_for_scores_np(y_true, pred, opt))

Call_zero_one_accuracy_for_scores_np ==
    /\ pc = "call"
    /\ fn = "zero_one_accuracy_for_scores_np"
    /\ Return(zero_one_accuracy_for_scores_np(y_true, pred, opt))

Call_zero_one_accuracy_np ==
    /\ pc = "call"
    /\ fn = "zero_one_accuracy_np"
    /\ Return(zero_one_accuracy_np(y_true, pred))

Call_FETAObjectRanker_predict_for_scores ==
    /\ pc = "call"
    /\ fn = "FETAObjectRanker.predict_for_scores"
    /\ Return(FETAObjectRanker_predict_for_scores(pred, opt))

NextRanking ==
    \/ Call_spearman_correlation_for_scores_np
    \/ Call_zero_one_accuracy_for_scores_np
    \/ Call_zero_one_accuracy_np
    \/ Call_FETAObjectRanker_predict_for_scores

SpecRanking == InitRanking /\ [][NextRanking]_vars

\* Spearman's rho of one row by the closed form, as a rational.
RowRho(r1, r2) ==
    LET m == Len(r1)
    IN  RSub(R(1), RDiv(R(6 * sum_sq_diff(r1, r2)), R(m * (m * m - 1))))

\* Sum of g[i] over the indices i of S.
RECURSIVE RSumOver(_, _)
RSumOver(g, S) ==
    IF S = {} THEN R(0)
    ELSE LET i == CHOOSE x \in S : TRUE
         IN  RAdd(g[i], RSumOver(g, S \ {i}))

\* Rows whose predicted ranking has no repeated value.
TieFreeRows(yp) == {i \in 1..Len(yp) : IsTieFree(yp[i])}

\* C8: spearman_correlation_for_scores_np returns the mean, over the rows whose
\* predicted ranking has no repeated value only, of 1 - 6*sum d^2 / (m(m^2-1));
\* rows with a tie do not change it, and with a tie in every row it is NaN.
C8_SpearmanNanMean ==
    Returned("spearman_correlation_for_scores_np") =>
        LET yp   == scores_to_rankings(pred, opt)
            keep == TieFreeRows(yp)
            rho  == [i \in 1..Len(yp) |-> RowRho(y_true[i], yp[i])]
        IN  /\ keep = {} => IsNaN(result)
            /\ keep # {} => result = RDiv(RSumOver(rho, keep), R(Cardinality(keep)))

C8_Witness ==
    /\ Returned("spearman_correlation_for_scores_np")
    /\ Len(y_true) = 2
    /\ n_objects(y_true) = 3
    /\ Cardinality(TieFreeRows(scores_to_rankings(pred, opt))) = 1
    /\ result = <<-1, 2>>

C8_WitnessAllTied ==
    /\ Returned("spearman_correlation_for_scores_np")
    /\ Len(y_true) = 2
    /\ n_objects(y_true) = 3
    /\ TieFreeRows(scores_to_rankings(pred, opt)) = {}
    /\ IsNaN(result)

\* C9: zero_one_accuracy_np is the number of rows of y_pred equal to the row of
\* y_true in every position, divided by n, and zero_one_accuracy_for_scores_np
\* is zero_one_accuracy_np on scores_to_rankings(s_pred).
C9_ExactMatchRate ==
    /\ Returned("zero_one_accuracy_np") =>
          result = RDiv(R(Cardinality({i \in 1..Len(pred) : pred[i] = y_true[i]})),
                        R(Len(pred)))
    /\ Returned("zero_one_accuracy_for_scores_np") =>
          result = zero_one_accuracy_np(y_true, scores_to_rankings(pred, opt))

C9_Witness ==
    /\ Returned("zero_one_accuracy_np")
    /\ Len(y_true) = 2
    /\ n_objects(y_true) = 3
    /\ pred[1] = y_true[1]
    /\ Cardinality({j \in 1..3 : pred[2][j] = y_true[2][j]}) = 1
    /\ result = <<1, 2>>

C9_WitnessScores ==
    /\ Returned("zero_one_accuracy_for_scores_np")
    /\ Len(y_true) = 2
    /\ n_objects(y_true) = 3
    /\ pred[1] # y_true[1]
    /\ scores_to_rankings(pred, opt)[1] = y_true[1]
    /\ scores_to_rankings(pred, opt)[2] # y_true[2]
    /\ result = <<1, 2>>

\* C10: FETAObjectRanker.predict_for_scores(scores) returns the ranking matrix
\* that ObjectRanker.predict_for_scores computes for the scores.
C10_ReturnsRanking ==
    Returned("FETAObjectRanker.predict_for_scores") =>
        result = ObjectRanker_predict_for_scores(pred, opt)

(***************************************************************************)
(* make_ndcg_at_k_loss_np                                                  *)
(*                                                                         *)
(* relevance = 2^e - 1 with e = (n_objects - grade) * 60 / n_objects.  The *)
(* map e -> 2^e - 1 is strictly increasing and is 0 exactly at e = 0, so a *)
(* relevance is held as its exponent e (a rational): order, equality and   *)
(* being zero are those of the relevance.  The discounts log2(r + 2) are   *)
(* irrational, so a DCG  sum_r rel_r / log2(r + 2)  is held as the vector  *)
(* of its coefficients <<rel_0, .., rel_(k-1)>>, and a gain DCG / IDCG as  *)
(* the pair of the two vectors.                                            *)
(***************************************************************************)
GradeScale == 60

\* np.power(2.0, ((n_objects - y) * 60) / n_objects) - 1.0, as its exponent.
relevance_of(y, m) ==
    [i \in 1..Len(y) |-> [j \in 1..m |-> RDiv(R((m - y[i][j]) * GradeScale), R(m))]]

\* The index orders np.argsort may return for one row: every permutation that
\* sorts the row ascending (the order among equal entries is not specified).
RECURSIVE ArgSortsFrom(_, _)
ArgSortsFrom(row, S) ==
    IF S = {} THEN {<<>>}
    ELSE UNION {{<<j>> \o rest : rest \in ArgSortsFrom(row, S \ {j})} :
                   j \in {x \in S : \A z \in S : ~RLess(row[z], row[x])}}

ArgSortsRow(row) == ArgSortsFrom(row, DOMAIN row)

\* np.argsort(matrix, axis=1)
ArgSorts(mat) ==
    LET rows == [i \in 1..Len(mat) |-> ArgSortsRow(mat[i])]
    IN  {o \in [1..Len(mat) -> UNION {rows[i] : i \in 1..Len(mat)}] :
            \A i \in 1..Len(mat) : o[i] \in rows[i]}

\* order[:, ::-1][:, :k] for one row
reverse_take(o, k) == [p \in 1..k |-> o[Len(o) + 1 - p]]

\* The same as top_t without the reversal [:, ::-1].
top_t_ascending(order, k) == [i \in 1..Len(order) |-> [p \in 1..k |-> order[i][p]]]

\* top_t = np.argsort(relevance, axis=1)[:, ::-1][:, :k]
top_t(order, k) == [i \in 1..Len(order) |-> reverse_take(order[i], k)]

\* The same as top_p without the reversal [:, ::-1].
top_p_ascending(order, k) == [i \in 1..Len(order) |-> [p \in 1..k |-> order[i][p]]]

\* top_p = np.argsort(relevance_pred, axis=1)[:, ::-1][:, :k]
top_p(order, k) == [i \in 1..Len(order) |-> reverse_take(order[i], k)]

\* np.sum(relevance[rows, top] / log_term, axis=-1, keepdims=True), one
\* coefficient vector per instance.
dcg_of(relevance, top) ==
    [i \in 1..Len(top) |-> [p \in 1..Len(top[i]) |-> relevance[i][top[i][p]]]]

\* ndcg(y_true, y_pred) of make_ndcg_at_k_loss_np(k), given what the two
\* argsort calls returned: the n x 1 array gain.
ndcg(k, yt, yp, order_t, order_p) ==
    LET m              == n_objects(yt)
        relevance      == relevance_of(yt, m)
        idcg           == dcg_of(relevance, top_t(order_t, k))
        pred_rel       == dcg_of(relevance, top_p(order_p, k))
    IN  [i \in 1..Len(yt) |-> [dcg |-> pred_rel[i], idcg |-> idcg[i]]]

\* A DCG is 0.0: relevances of grades up to n_objects are >= 0 and the
\* discounts are positive, so the sum is 0 iff every coefficient is 0.
DcgIsZero(v) == \A p \in DOMAIN v : v[p] = R(0)

\* gain = 0.0 / 0.0
GainIsNaN(g) == DcgIsZero(g.dcg) /\ DcgIsZero(g.idcg)

\* gain = x / x for a DCG x that is not 0: exactly 1.0.
GainIsOne(g) == g.dcg = g.idcg /\ ~DcgIsZero(g.idcg)

(***************************************************************************)
(* The calls of ndcg.  opt is the cutoff k; the grades of y_true are a     *)
(* permutation of 0..m-1 or of 1..m, y_pred has the same values, with ties.*)
(***************************************************************************)
NdcgShapes == {s \in Shapes : s[1] * s[2] <= MaxNdcgCells}

InitNdcg ==
    /\ pc = "call"
    /\ result = None
    /\ fn = "make_ndcg_at_k_loss_np"
    /\ \E s \in NdcgShapes : \E base \in {0, 1} :
          /\ y_true \in Matrices(s[1], RankRows(s[2], base))
          /\ pred \in Matrices(s[1], Rows(s[2], base..(base + s[2] - 1)))
          /\ opt \in 1..s[2]

Call_ndcg ==
    /\ pc = "call"
    /\ fn = "make_ndcg_at_k_loss_np"
    /\ \E order_t \in ArgSorts(relevance_of(y_true, n_objects(y_true))) :
       \E order_p \in ArgSorts(relevance_of(pred, n_objects(y_true))) :
          Return(ndcg(opt, y_true, pred, order_t, order_p))

NextNdcg == Call_ndcg

SpecNdcg == InitNdcg /\ [][NextNdcg]_vars

\* The p-th largest value of a row (p = 1 is the largest).
NthLargest(row, p) ==
    CHOOSE v \in {row[j] : j \in DOMAIN row} :
        /\ Cardinality({j \in DOMAIN row : RLess(v, row[j])}) < p
        /\ Cardinality({j \in DOMAIN row : ~RLess(row[j], v)}) >= p

\* The ways to list the k best objects of S by predicted relevance, best
\* first: each next object is one that no remaining object beats.
RECURSIVE PredictedTopK(_, _, _)
PredictedTopK(relp, k, S) ==
    IF k = 0 THEN {<<>>}
    ELSE UNION {{<<j>> \o rest : rest \in PredictedTopK(relp, k - 1, S \ {j})} :
                   j \in {x \in S : \A z \in S : ~RLess(relp[x], relp[z])}}

\* Instance i's entry is (DCG of the true relevances in predicted order) /
\* (ideal DCG), both cut at k.
IsInstanceGain(g, i) ==
    LET m    == n_objects(y_true)
        rel  == relevance_of(y_true, m)[i]
        relp == relevance_of(pred, m)[i]
    IN  /\ g.idcg = [p \in 1..opt |-> NthLargest(rel, p)]
        /\ \E ord \in PredictedTopK(relp, opt, 1..m) :
              g.dcg = [p \in 1..opt |-> rel[ord[p]]]

\* C3 as stated: make_ndcg_at_k_loss_np(k)(y_true, y_pred) returns one value
\* for the whole batch (the average of the instances' DCG / IDCG).
C3_OneValuePerBatch ==
    Returned("make_ndcg_at_k_loss_np") => Len(result) = 1

\* C3 as amended: it returns one value per instance, the n x 1 column whose
\* i-th entry is instance i's predicted DCG / ideal DCG; nothing is averaged.
C3_OneValuePerInstance ==
    Returned("make_ndcg_at_k_loss_np") =>
        /\ Len(result) = Len(y_true)
        /\ \A i \in 1..Len(y_true) : IsInstanceGain(result[i], i)

C3_Witness ==
    /\ Returned("make_ndcg_at_k_loss_np")
    /\ Len(y_true) = 2
    /\ n_objects(y_true) = 2
    /\ opt = 2
    /\ Len(result) = 2
    /\ pred[1] = y_true[1]
    /\ IsTieFree(pred[2])
    /\ GainIsOne(result[1])
    /\ ~GainIsOne(result[2])

\* C4 as stated: for every tie-free y_true (0-based or 1-based grades, any
\* m >= 1) and 1 <= k <= m, ndcg(y_true, y_true) is 1.0 for every instance.
C4_PerfectIsOne ==
    (Returned("make_ndcg_at_k_loss_np") /\ pred = y_true) =>
        \A i \in 1..Len(result) : GainIsOne(result[i])

\* The grades of y_true are 1-based: a permutation of 1..m in every row.
OneBased(y) == \A i \in 1..Len(y) : \A j \in 1..Len(y[i]) : y[i][j] >= 1

\* C4 as amended: the same for m >= 2, and for m = 1 with the 0-based grade;
\* for m = 1 with the 1-based grade the ideal DCG is 0 and the entry is NaN.
C4_PerfectIsOneUnlessZeroIdeal ==
    (Returned("make_ndcg_at_k_loss_np") /\ pred = y_true) =>
        \A i \in 1..Len(result) :
            IF n_objects(y_true) = 1 /\ OneBased(y_true)
            THEN GainIsNaN(result[i])
            ELSE GainIsOne(result[i])

C4_Witness ==
    /\ Returned("make_ndcg_at_k_loss_np")
    /\ pred = y_true
    /\ OneBased(y_true)
    /\ Len(y_true) = 2
    /\ n_objects(y_true) = 2
    /\ y_true[1] # y_true[2]
    /\ opt = 2
    /\ \A i \in 1..2 : GainIsOne(result[i])

C4_WitnessZeroIdeal ==
    /\ Returned("make_ndcg_at_k_loss_np")
    /\ pred = y_true
    /\ n_objects(y_true) = 1
    /\ OneBased(y_true)
    /\ GainIsNaN(result[1])

(***************************************************************************)
(* relevance_gain_np, err_np (default hooks)                               *)
(***************************************************************************)
RECURSIVE Pow2(_)
Pow2(e) == IF e = 0 THEN 1 ELSE 2 * Pow2(e - 1)

\* np.max(y_true)
np_max(y) ==
    CHOOSE v \in {y[i][j] : i \in 1..Len(y), j \in 1..n_objects(y)} :
        \A i \in 1..Len(y) : \A j \in 1..n_objects(y) : y[i][j] <= v

relevance_gain_np(grading, max_grade) ==
    LET inverse_grading == -grading + max_grade
    IN  RDiv(R(Pow2(inverse_grading) - 1), R(Pow2(max_grade)))

\* np.cumprod(v)[r] for r = 1 .. Len(v)
RECURSIVE cumprod(_, _)
cumprod(v, r) == IF r = 0 THEN R(1) ELSE RMul(cumprod(v, r - 1), v[r])

err_np(yt, yp) ==
    LET max_grade == np_max(yt)
        ninstances == Len(yp)
        nobjects == n_objects(yp)
        satisfied_probs ==
            [i \in 1..Len(yt) |-> [j \in 1..n_objects(yt) |->
                relevance_gain_np(yt[i][j], max_grade)]]
        \* satisfied_probs[row_indices, y_pred]: column r holds the entry at
        \* the 0-based index y_pred[i, r]
        satisfied_at_rank ==
            [i \in 1..ninstances |-> [r \in 1..nobjects |->
                satisfied_probs[i][yp[i][r] + 1]]]
        one_minus ==
            [i \in 1..ninstances |-> [r \in 1..nobjects |->
                RSub(R(1), satisfied_at_rank[i][r])]]
        \* the cumulative product, shifted right by one behind a leading 1
        not_yet_satisfied_at_rank ==
            [i \in 1..ninstances |-> [r \in 1..nobjects |-> cumprod(one_minus[i], r - 1)]]
        utilities == [r \in 1..nobjects |-> RDiv(R(1), R(r))]
        discount_at_rank ==
            [i \in 1..ninstances |-> [r \in 1..nobjects |->
                RMul(not_yet_satisfied_at_rank[i][r], utilities[r])]]
        discounted_document_values ==
            [i \in 1..ninstances |-> [r \in 1..nobjects |->
                RMul(satisfied_at_rank[i][r], discount_at_rank[i][r])]]
        results ==
            [i \in 1..ninstances |-> RSum(discounted_document_values[i], nobjects)]
    IN  np_mean(results)

InitErr ==
    /\ pc = "call"
    /\ result = None
    /\ fn = "err_np"
    /\ opt = None
    /\ \E s \in Shapes : \E base \in {0, 1} :
          /\ y_true \in Matrices(s[1], RankRows(s[2], base))
          /\ pred \in Matrices(s[1], RankingRows(s[2]))

Call_err_np ==
    /\ pc = "call"
    /\ fn = "err_np"
    /\ Return(err_np(y_true, pred))

NextErr == Call_err_np

SpecErr == InitErr /\ [][NextErr]_vars

\* The object that the ranking row places at the 0-based rank r.
ObjectAtRank(yprow, r) == CHOOSE j \in DOMAIN yprow : yprow[j] = r

\* The expected reciprocal rank of one instance, y_pred[j] being the 0-based
\* predicted rank of object j.
RowErr(ytrow, yprow, max_grade) ==
    LET m == Len(ytrow)
        p == [r \in 1..m |-> relevance_gain_np(ytrow[ObjectAtRank(yprow, r - 1)], max_grade)]
        q == [r \in 1..m |-> RSub(R(1), p[r])]
    IN  RSum([r \in 1..m |-> RMul(RDiv(R(1), R(r)), RMul(p[r], cumprod(q, r - 1)))], m)

\* C5: err_np returns the batch average of sum_r (1/r) * p_i(r) * prod_(s<r)
\* (1 - p_i(s)), p_i(r) being the satisfaction probability of the object that
\* y_pred ranks at position r, for every permutation-valued y_pred.
C5_ErrByPredictedRank ==
    (Returned("err_np") /\ \A i \in 1..Len(pred) : IsTieFree(pred[i])) =>
        result = np_mean([i \in 1..Len(pred) |->
                             RowErr(y_true[i], pred[i], np_max(y_true))])

(***************************************************************************)
(* instance_informedness                                                   *)
(***************************************************************************)
\* np.logical_and(a, b).sum(axis=1) for one row; an entry is true iff it is
\* not 0.
logical_and_sum(a, b) == Cardinality({j \in DOMAIN a : a[j] # 0 /\ b[j] # 0})

\* np.logical_not(a) for one row, as 0/1.
logical_not(a) == [j \in DOMAIN a |-> IF a[j] # 0 THEN 0 ELSE 1]

\* The same as informedness_reduce with np.mean in the place of np.nanmean.
informedness_reduce_mean(v) == np_mean(v)

\* np.nanmean(...)
informedness_reduce(v) == np_nanmean(v)

instance_informedness(yt, yp) ==
    LET n  == Len(yt)
        tp == [i \in 1..n |-> logical_and_sum(yt[i], yp[i])]
        tn == [i \in 1..n |-> logical_and_sum(logical_not(yt[i]), logical_not(yp[i]))]
        cp == [i \in 1..n |-> ISum(yt[i], Len(yt[i]))]
        cn == [i \in 1..n |-> ISum(logical_not(yt[i]), Len(yt[i]))]
    IN  informedness_reduce(
            [i \in 1..n |->
                RSub(RAdd(RDiv(R(tp[i]), R(cp[i])), RDiv(R(tn[i]), R(cn[i]))), R(1))])

(***************************************************************************)
(* auc_score.  roc_auc_score is sklearn's: for one row of binary labels it *)
(* is the fraction of (positive, negative) pairs the scores order          *)
(* correctly, a tied pair counting one half; with average="samples" it is  *)
(* the mean of the rows' values.  The value auc_score returns is paired    *)
(* with the record of its calls of roc_auc_score.                          *)
(***************************************************************************)
roc_auc_row(yrow, srow) ==
    LET pos == {j \in DOMAIN yrow : yrow[j] = 1}
        neg == {j \in DOMAIN yrow : yrow[j] = 0}
        won == Cardinality({pq \in pos \X neg : srow[pq[1]] > srow[pq[2]]})
        tie == Cardinality({pq \in pos \X neg : srow[pq[1]] = srow[pq[2]]})
    IN  RDiv(R(2 * won + tie), R(2 * Cardinality(pos) * Cardinality(neg)))

roc_auc_score_samples(y, s) == np_mean([i \in 1..Len(y) |-> roc_auc_row(y[i], s[i])])

\* The same as valid_rows without the test sum != 1.
valid_rows_keep_one_positive(y) ==
    LET m == n_objects(y)
        sum == [i \in 1..Len(y) |-> ISum(y[i], m)]
    IN  SelectSeq([i \in 1..Len(y) |-> i],
                  LAMBDA i : sum[i] # m - 1 /\ sum[i] # m /\ sum[i] # 0)

\* idx = np.where((sum != m - 1) & (sum != m) & (sum != 1) & (sum != 0))[0]
valid_rows(y) ==
    LET m == n_objects(y)
        sum == [i \in 1..Len(y) |-> ISum(y[i], m)]
    IN  SelectSeq([i \in 1..Len(y) |-> i],
                  LAMBDA i : sum[i] # m - 1 /\ sum[i] # m /\ sum[i] # 1 /\ sum[i] # 0)

auc_score(yt, sp) ==
    LET idx == valid_rows(yt)
        ysel == [r \in 1..Len(idx) |-> yt[idx[r]]]
        ssel == [r \in 1..Len(idx) |-> sp[idx[r]]]
    IN  IF Len(idx) > 1
        THEN [auc   |-> roc_auc_score_samples(ysel, ssel),
              calls |-> <<[average |-> "samples", y |-> ysel, s |-> ssel]>>]
        ELSE IF Len(idx) = 1
        THEN [auc   |-> roc_auc_row(ysel[1], ssel[1]),
              calls |-> <<[average |-> "macro", y |-> <<ysel[1]>>, s |-> <<ssel[1]>>]>>]
        ELSE [auc |-> NaN, calls |-> <<>>]

(***************************************************************************)
(* The calls of the multi-label metrics.                                   *)
(***************************************************************************)
MaxAucInstances == 3

MaxAucObjects == 4

MaxAucCells == 12

AucShapes ==
    {s \in (1..MaxAucInstances) \X (1..MaxAucObjects) : s[1] * s[2] <= MaxAucCells}

BinaryRows(m) == Rows(m, {0, 1})

\* Score rows of the AUC calls: ascending, descending or all equal.
AucScoreRows(m) == {[j \in 1..m |-> j], [j \in 1..m |-> m + 1 - j], [j \in 1..m |-> 1]}

InitLabel ==
    /\ pc = "call"
    /\ result = None
    /\ opt = None
    /\ \/ /\ fn = "instance_informedness"
          /\ \E s \in Shapes :
                /\ y_true \in Matrices(s[1], BinaryRows(s[2]))
                /\ pred \in Matrices(s[1], BinaryRows(s[2]))
       \/ /\ fn = "auc_score"
          /\ \E s \in AucShapes :
                /\ y_true \in Matrices(s[1], BinaryRows(s[2]))
                /\ pred \in Matrices(s[1], AucScoreRows(s[2]))

Call_instance_informedness ==
    /\ pc = "call"
    /\ fn = "instance_informedness"
    /\ Return(instance_informedness(y_true, pred))

Call_auc_score ==
    /\ pc = "call"
    /\ fn = "auc_score"
    /\ Return(auc_score(y_true, pred))

NextLabel ==
    \/ Call_instance_informedness
    \/ Call_auc_score

SpecLabel == InitLabel /\ [][NextLabel]_vars

TruePositives(yrow, prow) == Cardinality({j \in DOMAIN yrow : yrow[j] = 1 /\ prow[j] = 1})

TrueNegatives(yrow, prow) == Cardinality({j \in DOMAIN yrow : yrow[j] = 0 /\ prow[j] = 0})

Positives(yrow) == Cardinality({j \in DOMAIN yrow : yrow[j] = 1})

Negatives(yrow) == Cardinality({j \in DOMAIN yrow : yrow[j] = 0})

\* TPR + TNR - 1 of a row that has positives and negatives.
RowInformedness(yrow, prow) ==
    RSub(RAdd(RDiv(R(TruePositives(yrow, prow)), R(Positives(yrow))),
              RDiv(R(TrueNegatives(yrow, prow)), R(Negatives(yrow)))), R(1))

\* The mean of RowInformedness over the rows of S, NaN if S is empty.
MeanInformednessOver(S) ==
    RDiv(RSumOver([i \in 1..Len(y_true) |-> RowInformedness(y_true[i], pred[i])], S),
         R(Cardinality(S)))

\* C6 as stated: an instance with zero true positives and zero true negatives
\* contributes NaN and is excluded: the result is the mean of TPR + TNR - 1
\* over the other instances only.
C6_NoHitRowsExcluded ==
    Returned("instance_informedness") =>
        LET nohit == {i \in 1..Len(y_true) :
                        TruePositives(y_true[i], pred[i]) = 0
                        /\ TrueNegatives(y_true[i], pred[i]) = 0}
        IN  nohit # {} => result = MeanInformednessOver((1..Len(y_true)) \ nohit)

\* C6 as amended: an instance contributes NaN and is excluded from the mean
\* iff its y_true row has zero positives or zero negatives; an instance with
\* zero true positives and zero true negatives that has both classes
\* contributes -1 and is counted.
C6_OneClassRowsExcluded ==
    Returned("instance_informedness") =>
        LET both == {i \in 1..Len(y_true) :
                        Positives(y_true[i]) > 0 /\ Negatives(y_true[i]) > 0}
        IN  /\ result = MeanInformednessOver(both)
            /\ \A i \in both :
                  (TruePositives(y_true[i], pred[i]) = 0
                   /\ TrueNegatives(y_true[i], pred[i]) = 0)
                      => RowInformedness(y_true[i], pred[i]) = R(-1)

C6_Witness ==
    /\ Returned("instance_informedness")
    /\ Len(y_true) = 2
    /\ n_objects(y_true) = 3
    /\ Positives(y_true[1]) = 0
    /\ Positives(y_true[2]) = 1
    /\ TruePositives(y_true[2], pred[2]) = 0
    /\ TrueNegatives(y_true[2], pred[2]) = 0
    /\ result = R(-1)

\* Rows whose positive-label count is none of 0, 1, m-1, m.
ValidRowSet(y) ==
    {i \in 1..Len(y) : Positives(y[i]) \notin {0, 1, n_objects(y) - 1, n_objects(y)}}

\* The rows of S in ascending order of index.
RECURSIVE RowsOf(_, _)
RowsOf(mat, S) ==
    IF S = {} THEN <<>>
    ELSE LET i == CHOOSE x \in S : \A z \in S : x <= z
         IN  <<mat[i]>> \o RowsOf(mat, S \ {i})

\* C7: auc_score takes its branch by the number v of valid rows only: v >= 2
\* calls the samples-averaged AUC on exactly the valid rows, v = 1 calls the
\* AUC on the single valid row, v = 0 returns NaN without a call.
C7_AucBranches ==
    Returned("auc_score") =>
        LET V == ValidRowSet(y_true)
            v == Cardinality(V)
        IN  /\ v >= 2 =>
                 /\ result.calls = <<[average |-> "samples",
                                      y |-> RowsOf(y_true, V), s |-> RowsOf(pred, V)]>>
                 /\ result.auc = roc_auc_score_samples(RowsOf(y_true, V), RowsOf(pred, V))
            /\ v = 1 =>
                 /\ result.calls = <<[average |-> "macro",
                                      y |-> RowsOf(y_true, V), s |-> RowsOf(pred, V)]>>
                 /\ result.auc = roc_auc_row(RowsOf(y_true, V)[1], RowsOf(pred, V)[1])
            /\ v = 0 => result.calls = <<>> /\ IsNaN(result.auc)

\* The batch of the example: 0 positives, 1 positive, 2 of 4 positives.
C7_Witness ==
    /\ Returned("auc_score")
    /\ Len(y_true) = 3
    /\ n_objects(y_true) = 4
    /\ Positives(y_true[1]) = 0
    /\ Positives(y_true[2]) = 1
    /\ Positives(y_true[3]) = 2
    /\ Len(result.calls) = 1
    /\ result.calls[1].average = "macro"
    /\ result.calls[1].y = <<y_true[3]>>
    /\ result.auc = <<1, 4>>

====
